---------------------------- MODULE Spec2Model ----------------------------
(***************************************************************************)
(* Model of the txt -> JSON conversion pipeline:                           *)
(*   - the extraction clients (llm_api.LLMClient, webui.EnhancedLLMClient) *)
(*     with their one-retry policy and their response parsers,             *)
(*   - the sequential pipeline (txt_to_json.TxtToJsonConverter) and the    *)
(*     thread-pool pipeline (webui.WebUITxtToJsonConverter).               *)
(*                                                                         *)
(* Spec       : one job of either pipeline, from process_text to           *)
(*              save_combined_result.                                      *)
(* SpecClient : one request of one of the three retrying client calls.     *)
(***************************************************************************)
EXTENDS Integers, Sequences, FiniteSets, TLC

\* ------------------------------------------------------------------ bounds
MaxChapters == 2
MaxSegments == 2
MaxJobSegments == 3
MaxWorkers == 2
MaxRecords == 2
MaxResponseLen == 6
MaxTextLen == 6
MaxContentLen == 6
MaxLength == 5
MaxSectionLen == 3
MaxSegmentLength == 3
MaxLoopContentLen == 3
MaxLoopLength == 3

\* ------------------------------------------------------ JSON values (abstract)
\* A parsed JSON value: k its kind, n its size (list/dict/str length, or the
\* number), e the kind of a list's elements, r the kind of the value under a
\* mapping's "roles" key ("absent" when the mapping has no such key).
JVal(k, n, e, r) == [k |-> k, n |-> n, e |-> e, r |-> r]

None == JVal("none", 0, "-", "-")
JNull == JVal("null", 0, "-", "-")
EmptyList == JVal("list", 0, "-", "-")
RecordList(n) == JVal("list", n, "obj", "-")
StrList == JVal("list", 2, "str", "-")
NumList == JVal("list", 1, "num", "-")
JNum == JVal("num", 5, "-", "-")
JStr == JVal("str", 2, "-", "-")
JDict == JVal("dict", 1, "-", "absent")
RolesDict(r) == JVal("dict", 1, "-", r)

\* The value stored under the "roles" key of a mapping.
RolesValue(v) ==
    CASE v.r = "strlist" -> StrList
      [] v.r = "num" -> JNum
      [] v.r = "str" -> JStr
      [] OTHER -> JNull

\* Python truth value of a parsed value.
Truthy(v) ==
    CASE v.k \in {"list", "dict", "str"} -> v.n > 0
      [] v.k = "num" -> v.n # 0
      [] OTHER -> FALSE

\* list.extend(v) accepts any iterable; a number (or bool) raises TypeError.
Iterable(v) == v.k \in {"list", "dict", "str"}

\* ",".join(v) accepts an iterable of strings only (a mapping iterates its
\* string keys, a string its characters).
JoinOk(v) == (v.k = "list" /\ (v.n = 0 \/ v.e = "str")) \/ v.k \in {"dict", "str"}

\* ------------------------------------------------------------ response texts
\* The text of a service response: "json" is directly parsable text whose
\* value is val, "fenced" a ```-fenced block whose inner text parses to val,
\* "fencedbad" a fenced block that is not JSON, "label" free text carrying a
\* role-list label followed by two names, "plain" any other text.
Resp(form, val) == [form |-> form, val |-> val]
EmptyResponse == Resp("empty", None)

SegJson == {RecordList(n) : n \in 1..MaxRecords} \cup {EmptyList, JNum, JNull}
RoleJson == {StrList, NumList, EmptyList, JNum, JStr, JDict,
             RolesDict("strlist"), RolesDict("num"), RolesDict("str")}

SegResponses ==
    {Resp("json", v) : v \in SegJson}
    \cup {Resp("fenced", RecordList(1)), Resp("fenced", JNum),
          Resp("fencedbad", None), Resp("plain", None), EmptyResponse}
RoleResponses ==
    {Resp("json", v) : v \in RoleJson}
    \cup {Resp("fenced", StrList), Resp("fenced", JNum),
          Resp("label", None), Resp("plain", None), EmptyResponse}

\* ------------------------------------------------------------------ parsers
\* extract_json_from_response: direct parse, else the fenced block, else [].
extract_json_from_response(response) ==
    CASE response.form = "json" -> response.val
      [] response.form = "fenced" -> response.val
      [] OTHER -> EmptyList

\* EnhancedLLMClient.extract_roles_from_response: a parsed list is returned, a
\* parsed mapping with a "roles" key yields the value under it (whatever it
\* is); text that is not JSON is searched for a role-list label only.
webui_extract_roles_from_response(response) ==
    CASE response.form = "json" ->
            IF response.val.k = "list" THEN response.val
            ELSE IF response.val.k = "dict" /\ response.val.r # "absent"
                 THEN RolesValue(response.val)
                 ELSE EmptyList
      [] response.form = "label" -> StrList
      [] OTHER -> EmptyList

\* LLMClient.extract_roles_from_response: direct parse, else the fenced
\* block; anything that is not a list yields [].
cli_extract_roles_from_response(response) ==
    CASE response.form \in {"json", "fenced"} ->
            IF response.val.k = "list" THEN response.val ELSE EmptyList
      [] OTHER -> EmptyList

extract_roles_from_response(pl, response) ==
    IF pl = "webui" THEN webui_extract_roles_from_response(response)
    ELSE cli_extract_roles_from_response(response)


\* ------------------------------------------------- response texts, as text
\* A response text is a sequence of tokens: "fence" is ``` , "tag" the word
\* json, "ws" whitespace, "records" the JSON text [{"a":1}], "roles" the
\* JSON text ["Alice","Bob"], "rolesmap" the JSON text
\* {"roles": ["Alice","Bob"]}, "junk" any other text.
ResponseTokens == {"fence", "tag", "ws", "records", "roles", "rolesmap", "junk"}
JsonTokens == {"records", "roles", "rolesmap"}
JsonValue(tok) ==
    CASE tok = "records" -> RecordList(1)
      [] tok = "roles" -> StrList
      [] OTHER -> RolesDict("strlist")

\* The texts of at most n tokens over alphabet.
Texts(alphabet, n) == UNION {[1..k -> alphabet] : k \in 0..n}

\* str.strip(), and what a leading and a trailing \s* of a pattern consume
\* ("ws" a blank, "nl" a line feed).
Whitespace == {"ws", "nl"}
RECURSIVE LStrip(_)
LStrip(t) == IF t # <<>> /\ Head(t) \in Whitespace THEN LStrip(Tail(t)) ELSE t
RECURSIVE RStrip(_)
RStrip(t) ==
    IF t # <<>> /\ t[Len(t)] \in Whitespace
    THEN RStrip(SubSeq(t, 1, Len(t) - 1)) ELSE t
Strip(t) == RStrip(LStrip(t))

\* json.loads(text): whitespace around the one value is allowed; anything
\* else raises JSONDecodeError (ok = FALSE).
json_loads(text) ==
    LET t == Strip(text)
    IN IF Len(t) = 1 /\ t[1] \in JsonTokens
       THEN [ok |-> TRUE, val |-> JsonValue(t[1])]
       ELSE [ok |-> FALSE, val |-> None]

\* Mutant of re_search_fence: the pattern lacks the optional json tag.
re_search_fence_untagged(text) ==
    LET fences == {i \in DOMAIN text : text[i] = "fence"}
    IN IF Cardinality(fences) < 2
       THEN [found |-> FALSE, group |-> <<>>]
       ELSE LET open == CHOOSE i \in fences : \A j \in fences : i <= j
                close == CHOOSE i \in fences \ {open} :
                            \A j \in fences \ {open} : i <= j
            IN [found |-> TRUE, group |-> Strip(SubSeq(text, open + 1, close - 1))]

\* re.search(r'```(?:json)?\s*([\s\S]*?)\s*```', text): the leftmost fence
\* that has a fence after it, the tag when it follows at once, then the
\* shortest text up to the next fence, without the whitespace around it.
re_search_fence(text) ==
    LET fences == {i \in DOMAIN text : text[i] = "fence"}
    IN IF Cardinality(fences) < 2
       THEN [found |-> FALSE, group |-> <<>>]
       ELSE LET open == CHOOSE i \in fences : \A j \in fences : i <= j
                close == CHOOSE i \in fences \ {open} :
                            \A j \in fences \ {open} : i <= j
                from == IF text[open + 1] = "tag" THEN open + 2 ELSE open + 1
            IN [found |-> TRUE, group |-> Strip(SubSeq(text, from, close - 1))]

\* How the parsers read a text: the try of json.loads, then in the except
\* branch the search for a fenced block and json.loads of its inner text.
ResponseOf(text) ==
    IF text = <<>> THEN EmptyResponse
    ELSE IF json_loads(text).ok THEN Resp("json", json_loads(text).val)
    ELSE LET m == re_search_fence(text)
         IN IF ~m.found THEN Resp("plain", None)
            ELSE IF json_loads(m.group).ok
                 THEN Resp("fenced", json_loads(m.group).val)
                 ELSE Resp("fencedbad", None)

\* ---------------------------------------------------- the extraction service
\* What one POST to the service may do: answer with a well-formed envelope
\* carrying a response text, fail in transport, answer a non-success status,
\* answer an envelope without choices, or answer a malformed envelope.
FailureKinds == {"transport", "http", "nochoices", "malformed"}
Outcome(kind, content) == [kind |-> kind, content |-> content]
Responses(kind) == IF kind = "roles" THEN RoleResponses ELSE SegResponses
Outcomes(kind) ==
    {Outcome("ok", c) : c \in Responses(kind)}
    \cup {Outcome(f, EmptyResponse) : f \in FailureKinds}

\* ------------------------------------------------------ the retrying clients
\* pl = "cli": LLMClient.call_llm / call_llm_for_chapter_roles;
\* pl = "webui": EnhancedLLMClient._call_api.
\* The first attempt: either the call returns (retry = FALSE) or control
\* reaches the except branch.  LLMClient raises on an envelope without
\* choices, and so retries; _call_api returns "" at once.
FirstAttempt(pl, o) ==
    CASE o.kind = "ok" ->
            [retry |-> FALSE, result |-> o.content, log |-> <<"response">>]
      [] o.kind = "nochoices" /\ pl = "webui" ->
            [retry |-> FALSE, result |-> EmptyResponse, log |-> <<"format_error">>]
      [] o.kind = "nochoices" /\ pl = "cli" ->
            [retry |-> TRUE, result |-> EmptyResponse, log |-> <<"format_error">>]
      [] OTHER -> [retry |-> TRUE, result |-> EmptyResponse, log |-> <<>>]

\* Mutant of SecondAttempt: the handler of the retry re-raises.
SecondAttemptRaises(pl, o) ==
    CASE o.kind = "ok" ->
            [raised |-> FALSE, result |-> o.content, log |-> <<"retry_response">>]
      [] OTHER ->
            [raised |-> TRUE, result |-> EmptyResponse, log |-> <<"retry_failed">>]

\* The retry: every failure ends in return "".  LLMClient raises inside the
\* inner try on an envelope without choices, and its handler returns "".
SecondAttempt(pl, o) ==
    CASE o.kind = "ok" ->
            [raised |-> FALSE, result |-> o.content, log |-> <<"retry_response">>]
      [] o.kind = "nochoices" /\ pl = "webui" ->
            [raised |-> FALSE, result |-> EmptyResponse,
             log |-> <<"retry_format_error">>]
      [] o.kind = "nochoices" /\ pl = "cli" ->
            [raised |-> FALSE, result |-> EmptyResponse,
             log |-> <<"retry_format_error", "retry_failed">>]
      [] OTHER ->
            [raised |-> FALSE, result |-> EmptyResponse, log |-> <<"retry_failed">>]

\* A whole request with its prompt loaded: the result and the number of POSTs.
Extract(pl, o1, o2) ==
    LET a == FirstAttempt(pl, o1)
        b == SecondAttempt(pl, o2)
    IN IF a.retry
       THEN [result |-> b.result, calls |-> 2, raised |-> b.raised]
       ELSE [result |-> a.result, calls |-> 1, raised |-> FALSE]

\* `if not llm_response`
IsEmpty(response) == response.form = "empty"

\* The results a whole request may have, over every pair of outcomes of its
\* two POSTs.
ExtractResults(pl, kind) ==
    {Extract(pl, o1, o2).result : o1 \in Outcomes(kind), o2 \in Outcomes(kind)}
RoleResultsWebui == ExtractResults("webui", "roles")
RoleResultsCli == ExtractResults("cli", "roles")
SegmentResultsWebui == ExtractResults("webui", "segment")
SegmentResultsCli == ExtractResults("cli", "segment")
RoleResults(pl) == IF pl = "webui" THEN RoleResultsWebui ELSE RoleResultsCli
SegmentResults(pl) == IF pl = "webui" THEN SegmentResultsWebui ELSE SegmentResultsCli

\* How the role step saw its response: "failed" (empty result), parsed
\* directly to a "list", to a mapping whose "roles" value is a list
\* ("rolesmap"), to any other value ("nonlist"), or "text" (not JSON as it is).
RoleStatus(response) ==
    CASE IsEmpty(response) -> "failed"
      [] response.form = "json" ->
            IF response.val.k = "list" THEN "list"
            ELSE IF response.val.k = "dict" /\ response.val.r = "strlist" THEN "rolesmap"
                 ELSE "nonlist"
      [] OTHER -> "text"

VARIABLES
    \* ---- one job (Spec)
    pipeline,                \* "webui" | "cli" | "-"
    prompt_template,         \* the segment prompt is loaded and non-empty
    chapter_prompt_template, \* the role prompt is loaded and non-empty
    status_text,             \* process_text was given a status widget
    max_workers,             \* WebUITxtToJsonConverter.max_workers
    chapters,                \* split_by_chapter(text): <<title, #segments>>
    pc,                      \* position of the driving thread
    cur,                     \* 1-based position in chapters
    role_status,             \* how the role response of the chapter was read
    chapter_roles,           \* RoleSet of the current chapter
    submitted,               \* segments submitted / processed so far
    task,                    \* pool task of each segment
    sent,                    \* text of each segment request: none|bare|hinted
    result_queue,            \* EnhancedLLMClient.result_queue
    collected,               \* segment ids in the order the collector got them
    segment_results,         \* segment index -> value, None when absent
    chapter_json,            \* records of the current chapter
    result,                  \* title-keyed mapping, in insertion order
    scripts,                 \* scripts/<title>.json files written so far
    combined,                \* combined.json, <<>> of contents when written
    segment_json,            \* segment index -> what its extraction yielded
    request_sent,            \* some request of this job has been POSTed
    error,                   \* exception that ended the job
    abort_at,                \* where it was raised
    \* ---- one request (SpecClient)
    c_pl, c_kind, c_loaded, c_pc, c_calls, c_result, c_log, c_first, c_second,
    \* ---- one call of a response parser (SpecParse)
    p_text,                  \* the response text
    p_fn,                    \* the parser applied, "-" before the call
    p_out,                   \* what it returned
    \* ---- one call of split_by_chapter (SpecChapters)
    s_text,                  \* the input text
    s_pc,                    \* "idle" | "called" | "returned"
    s_mode,                  \* which mode gave the chapters
    s_chapters,              \* the chapters returned
    \* ---- one call of split_by_paragraph_or_length (SpecSegments)
    g_text,                  \* the chapter content
    g_max_length,            \* max_length
    g_pc,                    \* "idle" | "called" | "returned"
    g_segments,              \* the segments returned, each with its offset
    \* ---- the splitting of one input text into chapters and segments
    \* (SpecDocument, with the variables of split_by_chapter)
    d_max_length,            \* max_segment_length
    d_segments,              \* per chapter split so far, its segments
    \* ---- the loops of split_by_paragraph_or_length (SpecLoops, with the
    \* variables of split_by_paragraph_or_length; g_segments is result)
    w_start,                 \* start, the cursor of the main loop
    w_index,                 \* segments of result the post-pass has done
    w_final                  \* final_result

jobvars == <<pipeline, prompt_template, chapter_prompt_template, status_text,
             max_workers, chapters, pc, cur, role_status,
             chapter_roles, submitted, task, sent, result_queue, collected,
             segment_results, chapter_json, result, scripts, combined,
             segment_json, request_sent, error, abort_at>>
clientvars == <<c_pl, c_kind, c_loaded, c_pc, c_calls, c_result, c_log,
                c_first, c_second>>
parsevars == <<p_text, p_fn, p_out>>
chaptervars == <<s_text, s_pc, s_mode, s_chapters>>
segmentvars == <<g_text, g_max_length, g_pc, g_segments>>
documentvars == <<d_max_length, d_segments>>
loopvars == <<w_start, w_index, w_final>>
purevars == <<parsevars, chaptervars, segmentvars, documentvars, loopvars>>
vars == <<jobvars, clientvars, purevars>>

\* No parser or splitter call is under way.
ParseIdle == p_text = <<>> /\ p_fn = "idle" /\ p_out = None
ChapterIdle == s_text = <<>> /\ s_pc = "idle" /\ s_mode = "-" /\ s_chapters = <<>>
SegmentIdle == g_text = <<>> /\ g_max_length = 1 /\ g_pc = "idle" /\ g_segments = <<>>
DocumentIdle == d_max_length = 1 /\ d_segments = <<>>
LoopIdle == w_start = 0 /\ w_index = 0 /\ w_final = <<>>
PureIdle == ParseIdle /\ ChapterIdle /\ SegmentIdle /\ DocumentIdle /\ LoopIdle


\* ------------------------------------------------------------------ helpers
Min(a, b) == IF a < b THEN a ELSE b

RECURSIVE Concat(_)
Concat(ss) == IF ss = <<>> THEN <<>> ELSE Head(ss) \o Concat(Tail(ss))

\* Mutant of ChapterTitle: the counter is never incremented.
ChapterTitleConstant(chapter_index) == 1

\* split_by_chapter synthesizes the titles from a counter that starts at 1
\* and is incremented with every chapter appended.
ChapterTitle(chapter_index) == chapter_index

\* The number of segments of a job whose chapters have f[k] segments each.
RECURSIVE SegmentCount(_)
SegmentCount(f) == IF f = <<>> THEN 0 ELSE Head(f) + SegmentCount(Tail(f))

\* The chapter lists split_by_chapter may return, each chapter with the
\* number of segments split_by_paragraph_or_length cuts its (non-blank)
\* content into.
ChapterLists ==
    {f \in UNION {[1..n -> 1..MaxSegments] : n \in 0..MaxChapters} :
        SegmentCount(f) <= MaxJobSegments}
Chapters(f) == [k \in DOMAIN f |-> [title |-> ChapterTitle(k), nseg |-> f[k]]]

\* The items list.extend adds for segment i of chapter c: the elements of a
\* list, the keys of a mapping, the characters of a string.
Items(c, i, v) == IF Truthy(v) /\ Iterable(v) THEN [j \in 1..v.n |-> <<c, i, j>>] ELSE <<>>

\* d[key] = val on an insertion-ordered mapping.
DictSet(d, key, val) ==
    IF \E p \in DOMAIN d : d[p].title = key
    THEN [p \in DOMAIN d |-> IF d[p].title = key THEN [title |-> key, json |-> val] ELSE d[p]]
    ELSE Append(d, [title |-> key, json |-> val])

NSeg == IF cur \in DOMAIN chapters THEN chapters[cur].nseg ELSE 0
Title == IF cur \in DOMAIN chapters THEN chapters[cur].title ELSE 0
Segs == 0..(NSeg - 1)

\* Mutant of segment_with_roles: the roles of the chapter are left out.
segment_with_roles_ignored(roles) == "bare"

\* The text of a segment request: the bare segment, or the segment behind a
\* role-hint prefix when chapter_roles is truthy.
segment_with_roles(roles) == IF Truthy(roles) THEN "hinted" ELSE "bare"

\* Building the request raises TypeError when the roles cannot be joined.
RequestRaises(roles) == Truthy(roles) /\ ~JoinOk(roles)

\* What a segment's extraction yields: None for an empty result, and
\* `segment_json if segment_json else None` otherwise.
SegmentOutcome(response) ==
    IF IsEmpty(response) THEN None
    ELSE LET j == extract_json_from_response(response)
         IN IF Truthy(j) THEN j ELSE None

\* `if segment_result: chapter_json.extend(segment_result)` raises TypeError
\* on a truthy value that is not iterable.
ExtendRaises(v) == Truthy(v) /\ ~Iterable(v)

\* Mutant of MergeResult: the records are appended as the outcomes arrive.
MergeResultByCompletion(c) ==
    Concat([p \in 1..Len(collected) |-> Items(c, collected[p], segment_results[collected[p]])])

\* The merge loop over segment_results, in index order.
MergeResult(c) == Concat([p \in 1..NSeg |-> Items(c, p - 1, segment_results[p - 1])])

\* save_combined_result: the values of the mapping, in insertion order.
Combined(r) == Concat([p \in DOMAIN r |-> r[p].json])

\* Mutant of active_workers: the pool is as wide as the chapter has segments.
active_workers_per_segment == NSeg

\* active_workers = min(self.max_workers, len(segments))
active_workers == Min(max_workers, NSeg)
Running == {i \in Segs : task[i] = "running"}

\* ------------------------------------------------------------- Spec: a job
ClientIdle ==
    /\ c_pl = "-" /\ c_kind = "-" /\ c_loaded = FALSE /\ c_pc = "idle"
    /\ c_calls = 0 /\ c_result = EmptyResponse /\ c_log = <<>>
    /\ c_first = "-" /\ c_second = "-"

\* The state when process_text is entered: the client is set up (either
\* prompt may be missing: setup_llm_client only warns, and an empty prompt
\* file loads as a falsy template), the text is split into chapters.
Init ==
    /\ pipeline \in {"webui", "cli"}
    /\ prompt_template \in BOOLEAN
    /\ chapter_prompt_template \in BOOLEAN
    /\ status_text \in (IF pipeline = "webui" THEN BOOLEAN ELSE {FALSE})
    /\ max_workers \in (IF pipeline = "webui" THEN 1..MaxWorkers ELSE {1})
    /\ chapters \in {Chapters(f) : f \in ChapterLists}
    /\ pc = IF chapters = <<>> THEN "return" ELSE "roles"
    /\ cur = 1
    /\ role_status = "-"
    /\ chapter_roles = EmptyList
    /\ submitted = 0
    /\ task = <<>>
    /\ sent = <<>>
    /\ result_queue = <<>>
    /\ collected = <<>>
    /\ segment_results = <<>>
    /\ segment_json = <<>>
    /\ chapter_json = <<>>
    /\ result = <<>>
    /\ scripts = <<>>
    /\ combined = <<>>
    /\ request_sent = FALSE
    /\ error = "none"
    /\ abort_at = "none"
    /\ ClientIdle
    /\ PureIdle

\* An exception leaves process_text; main reports it and writes nothing more.
Abort(exc, where) ==
    /\ pc' = "aborted"
    /\ error' = exc
    /\ abort_at' = where

\* call_llm_for_chapter_roles with no role prompt: ValueError, nothing sent.
RoleTemplateNotLoaded ==
    /\ pc = "roles"
    /\ ~chapter_prompt_template
    /\ Abort("ValueError", "roles")
    /\ UNCHANGED <<pipeline, prompt_template, chapter_prompt_template, status_text,
                   max_workers, chapters, cur, role_status, chapter_roles,
                   submitted, task, sent, result_queue, collected, segment_results,
                   segment_json, chapter_json, result, scripts, combined,
                   request_sent, clientvars, purevars>>

\* The role step of a chapter, up to the split into segments: the request
\* (with its retry), the parse, and the status line that joins the roles.
RoleExtraction ==
    /\ pc = "roles"
    /\ chapter_prompt_template
    /\ \E response \in RoleResults(pipeline) :
        LET roles == IF IsEmpty(response) THEN EmptyList
                     ELSE extract_roles_from_response(pipeline, response)
        IN /\ request_sent' = TRUE
           /\ role_status' = RoleStatus(response)
           /\ chapter_roles' = roles
           /\ IF pipeline = "webui" /\ status_text /\ RequestRaises(roles)
              THEN /\ Abort("TypeError", "roles")
                   /\ UNCHANGED <<submitted, task, sent, collected, segment_results,
                                  segment_json, chapter_json>>
              ELSE /\ pc' = IF pipeline = "webui" THEN "submit" ELSE "segments"
                   /\ submitted' = 0
                   /\ task' = [i \in Segs |-> "none"]
                   /\ sent' = [i \in Segs |-> "none"]
                   /\ collected' = <<>>
                   /\ segment_results' = [i \in Segs |-> None]
                   /\ segment_json' = [i \in Segs |-> None]
                   /\ chapter_json' = <<>>
                   /\ UNCHANGED <<error, abort_at>>
    /\ UNCHANGED <<pipeline, prompt_template, chapter_prompt_template, status_text,
                   max_workers, chapters, cur, result_queue, result, scripts,
                   combined, clientvars, purevars>>

\* executor.submit of the next segment.
Submit ==
    /\ pc = "submit"
    /\ task' = [task EXCEPT ![submitted] = "queued"]
    /\ submitted' = submitted + 1
    /\ pc' = IF submitted + 1 = NSeg THEN "collect" ELSE "submit"
    /\ UNCHANGED <<pipeline, prompt_template, chapter_prompt_template, status_text,
                   max_workers, chapters, cur, role_status, chapter_roles,
                   sent, result_queue, collected, segment_results, segment_json,
                   chapter_json, result, scripts, combined, request_sent, error,
                   abort_at, clientvars, purevars>>

\* A free pool thread takes the oldest queued task.
CanStart(i) ==
    /\ pipeline = "webui"
    /\ pc \in {"submit", "collect"}
    /\ i \in Segs
    /\ task[i] = "queued"
    /\ \A j \in Segs : j < i => task[j] # "queued"
    /\ Cardinality(Running) < active_workers

\* The task raises before any request (TypeError from the join, ValueError
\* from call_llm): the future keeps the exception and nothing is put.
WorkerCrash(i) ==
    /\ CanStart(i)
    /\ RequestRaises(chapter_roles) \/ ~prompt_template
    /\ task' = [task EXCEPT ![i] = "crashed"]
    /\ UNCHANGED <<pipeline, prompt_template, chapter_prompt_template, status_text,
                   max_workers, chapters, pc, cur, role_status,
                   chapter_roles, submitted, sent, result_queue, collected,
                   segment_results, segment_json, chapter_json, result, scripts,
                   combined, request_sent, error, abort_at, clientvars, purevars>>

\* The task builds its request and issues it.
WorkerStart(i) ==
    /\ CanStart(i)
    /\ ~RequestRaises(chapter_roles)
    /\ prompt_template
    /\ task' = [task EXCEPT ![i] = "running"]
    /\ sent' = [sent EXCEPT ![i] = segment_with_roles(chapter_roles)]
    /\ request_sent' = TRUE
    /\ UNCHANGED <<pipeline, prompt_template, chapter_prompt_template, status_text,
                   max_workers, chapters, pc, cur, role_status,
                   chapter_roles, submitted, result_queue, collected,
                   segment_results, segment_json, chapter_json, result, scripts,
                   combined, error, abort_at, clientvars, purevars>>

\* result_queue.put((segment_id, value))
QueuePut(q, i, v) == Append(q, [id |-> i, json |-> v])

\* The request of a running task returns (after one or two POSTs) and the
\* task puts its outcome.
WorkerFinish(i) ==
    /\ pipeline = "webui"
    /\ pc \in {"submit", "collect"}
    /\ i \in Segs
    /\ task[i] = "running"
    /\ \E response \in SegmentResults(pipeline) :
        LET v == SegmentOutcome(response)
        IN /\ segment_json' = [segment_json EXCEPT ![i] = v]
           /\ result_queue' = QueuePut(result_queue, i, v)
    /\ task' = [task EXCEPT ![i] = "done"]
    /\ UNCHANGED <<pipeline, prompt_template, chapter_prompt_template, status_text,
                   max_workers, chapters, pc, cur, role_status,
                   chapter_roles, submitted, sent, collected, segment_results,
                   chapter_json, result, scripts, combined, request_sent, error,
                   abort_at, clientvars, purevars>>

\* Mutant of CollectionDone: the loop stops at the first outcome.
CollectionDoneAtFirst(n) == n >= 1

\* `for _ in range(len(segments))`: the loop ends after len(segments) gets.
CollectionDone(n) == n = NSeg

\* One iteration of the collection loop: result_queue.get() and the store.
Collect ==
    /\ pc = "collect"
    /\ result_queue # <<>>
    /\ LET got == Head(result_queue)
       IN /\ segment_results' = IF Truthy(got.json)
                                THEN [segment_results EXCEPT ![got.id] = got.json]
                                ELSE segment_results
          /\ collected' = Append(collected, got.id)
    /\ result_queue' = Tail(result_queue)
    /\ pc' = IF CollectionDone(Len(collected) + 1) THEN "merge" ELSE "collect"
    /\ UNCHANGED <<pipeline, prompt_template, chapter_prompt_template, status_text,
                   max_workers, chapters, cur, role_status, chapter_roles,
                   submitted, task, sent, segment_json, chapter_json, result,
                   scripts, combined, request_sent, error, abort_at, clientvars, purevars>>

\* The merge of the thread-pool pipeline and result[chapter_title] = ...
MergeRaises == \E i \in Segs : ExtendRaises(segment_results[i])

\* What chapter_json holds when the merge loop raises at the first value
\* that cannot be iterated.
MergePrefix(c) ==
    LET bad == CHOOSE i \in Segs : /\ ExtendRaises(segment_results[i])
                                  /\ \A j \in Segs : j < i => ~ExtendRaises(segment_results[j])
    IN Concat([p \in 1..bad |-> Items(c, p - 1, segment_results[p - 1])])

Merge ==
    /\ pipeline = "webui"
    /\ pc = "merge"
    /\ IF MergeRaises
       THEN /\ Abort("TypeError", "merge")
            /\ chapter_json' = MergePrefix(Title)
            /\ UNCHANGED result
       ELSE /\ chapter_json' = MergeResult(Title)
            /\ result' = DictSet(result, Title, MergeResult(Title))
            /\ pc' = "persist"
            /\ UNCHANGED <<error, abort_at>>
    /\ UNCHANGED <<pipeline, prompt_template, chapter_prompt_template, status_text,
                   max_workers, chapters, cur, role_status, chapter_roles,
                   submitted, task, sent, result_queue, collected, segment_results,
                   segment_json, scripts, combined, request_sent, clientvars, purevars>>

\* The sequential pipeline: the request of the next segment cannot be built
\* (TypeError from the join) or call_llm finds no prompt (ValueError).
CliSegmentRaises ==
    /\ pipeline = "cli"
    /\ pc = "segments"
    /\ RequestRaises(chapter_roles) \/ ~prompt_template
    /\ Abort(IF RequestRaises(chapter_roles) THEN "TypeError" ELSE "ValueError", "request")
    /\ UNCHANGED <<pipeline, prompt_template, chapter_prompt_template, status_text,
                   max_workers, chapters, cur, role_status, chapter_roles,
                   submitted, task, sent, result_queue, collected, segment_results,
                   segment_json, chapter_json, result, scripts, combined,
                   request_sent, clientvars, purevars>>

\* The sequential pipeline: one iteration of the segment loop, i.e. the
\* request (with its retry), the parse and the extend.
CliSegment ==
    /\ pipeline = "cli"
    /\ pc = "segments"
    /\ ~RequestRaises(chapter_roles)
    /\ prompt_template
    /\ sent' = [sent EXCEPT ![submitted] = segment_with_roles(chapter_roles)]
    /\ request_sent' = TRUE
    /\ \E response \in SegmentResults(pipeline) :
        LET v == SegmentOutcome(response)
        IN /\ segment_json' = [segment_json EXCEPT ![submitted] = v]
           /\ IF ExtendRaises(v)
              THEN /\ Abort("TypeError", "merge")
                   /\ UNCHANGED <<chapter_json, submitted>>
              ELSE /\ chapter_json' = chapter_json \o Items(Title, submitted, v)
                   /\ submitted' = submitted + 1
                   /\ pc' = IF submitted + 1 = NSeg THEN "merge" ELSE "segments"
                   /\ UNCHANGED <<error, abort_at>>
    /\ UNCHANGED <<pipeline, prompt_template, chapter_prompt_template, status_text,
                   max_workers, chapters, cur, role_status, chapter_roles,
                   task, result_queue, collected, segment_results, result, scripts,
                   combined, clientvars, purevars>>

\* The sequential pipeline: result[chapter_title] = chapter_json
CliMerge ==
    /\ pipeline = "cli"
    /\ pc = "merge"
    /\ result' = DictSet(result, Title, chapter_json)
    /\ pc' = "persist"
    /\ UNCHANGED <<pipeline, prompt_template, chapter_prompt_template, status_text,
                   max_workers, chapters, cur, role_status, chapter_roles,
                   submitted, task, sent, result_queue, collected, segment_results,
                   segment_json, chapter_json, scripts, combined, request_sent,
                   error, abort_at, clientvars, purevars>>

\* json.dump(chapter_json) to scripts/<safe_title>.json, then the next
\* chapter, or the return of process_text after the last one.  The locals of
\* the iteration are dead from here on (each is assigned anew before it is
\* read again); the model clears them.
Persist ==
    /\ pc = "persist"
    /\ scripts' = DictSet(scripts, Title, chapter_json)
    /\ cur' = cur + 1
    /\ pc' = IF cur + 1 > Len(chapters) THEN "return" ELSE "roles"
    /\ role_status' = "-"
    /\ chapter_roles' = EmptyList
    /\ submitted' = 0
    /\ task' = <<>>
    /\ sent' = <<>>
    /\ collected' = <<>>
    /\ segment_results' = <<>>
    /\ segment_json' = <<>>
    /\ chapter_json' = <<>>
    /\ UNCHANGED <<pipeline, prompt_template, chapter_prompt_template, status_text,
                   max_workers, chapters, result_queue, result, combined,
                   request_sent, error, abort_at, clientvars, purevars>>

\* main: save_combined_result(result) once process_text has returned.
SaveCombined ==
    /\ pc = "return"
    /\ combined' = Append(combined, Combined(result))
    /\ pc' = "done"
    /\ UNCHANGED <<pipeline, prompt_template, chapter_prompt_template, status_text,
                   max_workers, chapters, cur, role_status, chapter_roles,
                   submitted, task, sent, result_queue, collected, segment_results,
                   segment_json, chapter_json, result, scripts, request_sent,
                   error, abort_at, clientvars, purevars>>

Next ==
    \/ RoleTemplateNotLoaded
    \/ RoleExtraction
    \/ Submit
    \/ \E i \in 0..(MaxSegments - 1) : WorkerCrash(i)
    \/ \E i \in 0..(MaxSegments - 1) : WorkerStart(i)
    \/ \E i \in 0..(MaxSegments - 1) : WorkerFinish(i)
    \/ Collect
    \/ Merge
    \/ CliSegmentRaises
    \/ CliSegment
    \/ CliMerge
    \/ Persist
    \/ SaveCombined

Spec == Init /\ [][Next]_vars

\* ------------------------------------------------- SpecClient: one request
JobIdle ==
    /\ pipeline = "-" /\ prompt_template = FALSE /\ chapter_prompt_template = FALSE
    /\ status_text = FALSE /\ max_workers = 1 /\ chapters = <<>> /\ pc = "idle"
    /\ cur = 1 /\ role_status = "-" /\ chapter_roles = EmptyList /\ submitted = 0
    /\ task = <<>> /\ sent = <<>> /\ result_queue = <<>> /\ collected = <<>>
    /\ segment_results = <<>> /\ segment_json = <<>> /\ chapter_json = <<>>
    /\ result = <<>> /\ scripts = <<>> /\ combined = <<>> /\ request_sent = FALSE
    /\ error = "none" /\ abort_at = "none"

\* A call of call_llm (c_kind = "segment") or call_llm_for_chapter_roles
\* (c_kind = "roles") of either client, its prompt loaded or not.
ClientInit ==
    /\ c_pl \in {"webui", "cli"}
    /\ c_kind \in {"roles", "segment"}
    /\ c_loaded \in BOOLEAN
    /\ c_pc = "called"
    /\ c_calls = 0
    /\ c_result = EmptyResponse
    /\ c_log = <<>>
    /\ c_first = "-"
    /\ c_second = "-"
    /\ JobIdle
    /\ PureIdle

\* `if not self.prompt_template: raise ValueError(...)`
ClientTemplateNotLoaded ==
    /\ c_pc = "called"
    /\ ~c_loaded
    /\ c_pc' = "raised"
    /\ UNCHANGED <<c_pl, c_kind, c_loaded, c_calls, c_result, c_log, c_first,
                   c_second, jobvars, purevars>>

\* The try block: the pending log entry, the POST, the envelope.
ClientFirstAttempt ==
    /\ c_pc = "called"
    /\ c_loaded
    /\ \E o \in Outcomes(c_kind) :
        LET a == FirstAttempt(c_pl, o)
        IN /\ c_first' = o.kind
           /\ c_log' = <<"pending">> \o a.log
           /\ c_result' = a.result
           /\ c_pc' = IF a.retry THEN "sleep" ELSE "returned"
    /\ c_calls' = c_calls + 1
    /\ UNCHANGED <<c_pl, c_kind, c_loaded, c_second, jobvars, purevars>>

\* time.sleep(2) in the except branch.
ClientSleep ==
    /\ c_pc = "sleep"
    /\ c_pc' = "retry"
    /\ UNCHANGED <<c_pl, c_kind, c_loaded, c_calls, c_result, c_log, c_first,
                   c_second, jobvars, purevars>>

\* The inner try block: the second POST and its envelope.
ClientSecondAttempt ==
    /\ c_pc = "retry"
    /\ \E o \in Outcomes(c_kind) :
        LET b == SecondAttempt(c_pl, o)
        IN /\ c_second' = o.kind
           /\ c_log' = c_log \o b.log
           /\ c_result' = b.result
           /\ c_pc' = IF b.raised THEN "raised" ELSE "returned"
    /\ c_calls' = c_calls + 1
    /\ UNCHANGED <<c_pl, c_kind, c_loaded, c_first, jobvars, purevars>>

ClientNext ==
    \/ ClientTemplateNotLoaded
    \/ ClientFirstAttempt
    \/ ClientSleep
    \/ ClientSecondAttempt

SpecClient == ClientInit /\ [][ClientNext]_vars

\* ------------------------------------- SpecParse: one call of a parser
\* A parser is about to be applied to a response text.
ParseInit ==
    /\ p_text \in Texts(ResponseTokens, MaxResponseLen)
    /\ p_fn = "-"
    /\ p_out = None
    /\ JobIdle /\ ClientIdle /\ ChapterIdle /\ SegmentIdle /\ DocumentIdle /\ LoopIdle

\* extract_json_from_response(p_text), the same code in both clients.
ParseRecords ==
    /\ p_fn = "-"
    /\ p_fn' = "records"
    /\ p_out' = extract_json_from_response(ResponseOf(p_text))
    /\ UNCHANGED <<p_text, jobvars, clientvars, chaptervars, segmentvars,
                   documentvars, loopvars>>

\* extract_roles_from_response(p_text) of the client of pipeline pl.
ParseRoles(pl) ==
    /\ p_fn = "-"
    /\ p_fn' = pl
    /\ p_out' = extract_roles_from_response(pl, ResponseOf(p_text))
    /\ UNCHANGED <<p_text, jobvars, clientvars, chaptervars, segmentvars,
                   documentvars, loopvars>>

ParseNext ==
    \/ ParseRecords
    \/ ParseRoles("webui")
    \/ ParseRoles("cli")

SpecParse == ParseInit /\ [][ParseNext]_vars

\* ----------------------------------------------------- split_by_chapter
\* An input text is a sequence of tokens: "a" a character of content, "ws" a
\* blank, "nl" a line feed, "#" the marker character, "H" a chapter heading
\* (one match of combined_pattern).
TextTokens == {"a", "ws", "nl", "#", "H"}

\* text.split('\n')
RECURSIVE SplitLines(_)
SplitLines(text) ==
    IF \A i \in DOMAIN text : text[i] # "nl" THEN <<text>>
    ELSE LET n == CHOOSE i \in DOMAIN text :
                    text[i] = "nl" /\ \A j \in 1..(i - 1) : text[j] # "nl"
         IN <<SubSeq(text, 1, n - 1)>> \o SplitLines(SubSeq(text, n + 1, Len(text)))

\* '\n'.join(lines)
RECURSIVE JoinLines(_)
JoinLines(lines) ==
    IF lines = <<>> THEN <<>>
    ELSE IF Len(lines) = 1 THEN lines[1]
    ELSE lines[1] \o <<"nl">> \o JoinLines(Tail(lines))

\* `if '#' in line.strip()`
IsMarkerLine(line) == \E i \in DOMAIN line : line[i] = "#"

\* Mutant of Flush: the `if content:` guard is missing.
FlushAlways(st) ==
    IF st.current = <<>> THEN st
    ELSE [st EXCEPT !.chapters = Append(@, [title |-> ChapterTitle(st.index),
                                            content |-> Strip(JoinLines(st.current))]),
                    !.index = @ + 1,
                    !.current = <<>>]

\* The lines collected so far become a chapter when they hold more than
\* whitespace; only then is current_content emptied.
Flush(st) ==
    LET content == Strip(JoinLines(st.current))
    IN IF st.current # <<>> /\ content # <<>>
       THEN [st EXCEPT !.chapters = Append(@, [title |-> ChapterTitle(st.index),
                                               content |-> content]),
                       !.index = @ + 1,
                       !.current = <<>>]
       ELSE st

\* The loop over the lines, then the flush of the last lines.
RECURSIVE MarkerLoop(_, _)
MarkerLoop(lines, st) ==
    IF lines = <<>> THEN Flush(st)
    ELSE IF IsMarkerLine(Head(lines))
         THEN MarkerLoop(Tail(lines), [Flush(st) EXCEPT !.found = TRUE])
         ELSE MarkerLoop(Tail(lines), [st EXCEPT !.current = Append(@, Head(lines))])

hashtag_chapters(text) ==
    MarkerLoop(SplitLines(text),
               [chapters |-> <<>>, index |-> 1, current |-> <<>>, found |-> FALSE])

\* The start positions of the matches of combined_pattern, in order.
HeadingMatches(text) ==
    SelectSeq([i \in 1..Len(text) |-> i], LAMBDA i : text[i] = "H")

\* The loop over re.finditer: the content of a heading runs to the next
\* heading or to the end of the text, and makes a chapter when not blank.
RECURSIVE PatternLoop(_, _, _)
PatternLoop(text, matches, st) ==
    IF matches = <<>> THEN st
    ELSE LET chapter_end == Head(matches) + 1
             stop == IF Len(matches) > 1 THEN matches[2] - 1 ELSE Len(text)
             chapter_content == Strip(SubSeq(text, chapter_end, stop))
         IN PatternLoop(text, Tail(matches),
                IF chapter_content # <<>>
                THEN [st EXCEPT !.chapters = Append(@, [title |-> ChapterTitle(st.index),
                                                        content |-> chapter_content]),
                                !.index = @ + 1]
                ELSE st)

\* Mutant of pattern_chapters: the text before the first heading is dropped.
pattern_chapters_without_preface(text) ==
    PatternLoop(text, HeadingMatches(text), [chapters |-> <<>>, index |-> 1]).chapters

\* Pattern mode: the text before the first heading is a first chapter when
\* it is not blank, then one chapter per heading with content.
pattern_chapters(text) ==
    LET matches == HeadingMatches(text)
        first_content == IF matches # <<>> /\ matches[1] > 1
                         THEN Strip(SubSeq(text, 1, matches[1] - 1)) ELSE <<>>
        st0 == IF first_content # <<>>
               THEN [chapters |-> <<[title |-> ChapterTitle(1), content |-> first_content]>>,
                     index |-> 2]
               ELSE [chapters |-> <<>>, index |-> 1]
    IN PatternLoop(text, matches, st0).chapters

\* Mutant of split_by_chapter: the fallback to the whole text is missing.
split_by_chapter_without_fallback(text) ==
    LET h == hashtag_chapters(text)
        p == pattern_chapters(text)
    IN IF h.found /\ h.chapters # <<>>
       THEN [mode |-> "marker", chapters |-> h.chapters]
       ELSE IF p # <<>> THEN [mode |-> "pattern", chapters |-> p]
       ELSE [mode |-> "none", chapters |-> <<>>]

\* split_by_chapter(text): marker mode when it found a marker and a chapter,
\* else pattern mode, else the whole trimmed text when it is not blank.
split_by_chapter(text) ==
    LET h == hashtag_chapters(text)
        p == pattern_chapters(text)
    IN IF h.found /\ h.chapters # <<>>
       THEN [mode |-> "marker", chapters |-> h.chapters]
       ELSE IF p # <<>> THEN [mode |-> "pattern", chapters |-> p]
       ELSE IF Strip(text) # <<>>
            THEN [mode |-> "fallback",
                  chapters |-> <<[title |-> ChapterTitle(1), content |-> Strip(text)]>>]
            ELSE [mode |-> "none", chapters |-> <<>>]

\* ----------------------------- SpecChapters: one call of split_by_chapter
ChapterInit ==
    /\ s_text \in Texts(TextTokens, MaxTextLen)
    /\ s_pc = "called"
    /\ s_mode = "-"
    /\ s_chapters = <<>>
    /\ JobIdle /\ ClientIdle /\ ParseIdle /\ SegmentIdle /\ DocumentIdle /\ LoopIdle

SplitByChapter ==
    /\ s_pc = "called"
    /\ s_pc' = "returned"
    /\ s_mode' = split_by_chapter(s_text).mode
    /\ s_chapters' = split_by_chapter(s_text).chapters
    /\ UNCHANGED <<s_text, jobvars, clientvars, parsevars, segmentvars,
                   documentvars, loopvars>>

ChapterNext == SplitByChapter

SpecChapters == ChapterInit /\ [][ChapterNext]_vars

\* ---------------------------------------------- split_by_paragraph_or_length
\* A chapter content is a sequence of characters, each of one kind: "a" an
\* ordinary character, "s" a sentence-end punctuation mark, "o" another
\* punctuation mark, "q" a quote mark, "ws" whitespace.
ContentTokens == {"a", "s", "o", "q", "ws"}

sentence_end_punctuations == {"s"}
other_punctuations == {"o"}
all_punctuations == sentence_end_punctuations \cup other_punctuations

\* The four pairs of the source are four times the same pair, whose opening
\* and closing marks are the same character.
quote_pairs ==
    << [open |-> "q", close |-> "q"], [open |-> "q", close |-> "q"],
       [open |-> "q", close |-> "q"], [open |-> "q", close |-> "q"] >>

\* text[lo:hi], with offsets counted from 0.
Slice(text, lo, hi) == SubSeq(text, lo + 1, Min(hi, Len(text)))

\* str.find: the offset of the first ch in t, or -1.
Find(t, ch) ==
    LET S == {i \in DOMAIN t : t[i] = ch}
    IN  IF S = {} THEN -1 ELSE (CHOOSE i \in S : \A j \in S : i <= j) - 1

\* str.count
Count(t, ch) == Cardinality({i \in DOMAIN t : t[i] = ch})

\* Mutant of Window: the window reaches the end of the text.
WindowWhole(start, max_length, len) == len

\* Mutant of Window: the window is empty.
WindowNone(start, max_length, len) == start

\* The window opened at start: min(start + max_length, len(text)).
Window(start, max_length, len) == Min(start + max_length, len)

\* The last offset after start and before end of a mark of the class, or -1:
\* max over the marks of text.rfind(mark, start, end), kept when pos > start.
BestSplit(text, class, start, end) ==
    LET S == {p \in (start + 1)..(Min(end, Len(text)) - 1) : text[p + 1] \in class}
    IN  IF S = {} THEN -1 ELSE CHOOSE p \in S : \A r \in S : r <= p

\* A closing mark removes the last stack entry that waits for it, if any.
\* (The stack is bound by a quantifier, so that it is computed once
\* however often it is read.)
PopMatching(stack, close_q) ==
    CHOOSE popped \in
        { LET S == {i \in DOMAIN s : s[i].close = close_q}
          IN  IF S = {} THEN s
              ELSE LET i == CHOOSE x \in S : \A y \in S : y <= x
                   IN  SubSeq(s, 1, i - 1) \o SubSeq(s, i + 1, Len(s))
          : s \in {stack} } : TRUE

\* The entries of quotes_positions at one offset, in the order the stable
\* sort leaves them (pair by pair, the opening entry before the closing
\* one), applied to the stack.
RECURSIVE ScanPairs(_, _, _, _)
ScanPairs(ch, pos, stack, k) ==
    IF k > Len(quote_pairs) THEN stack
    ELSE ScanPairs(ch, pos,
                   IF ch = quote_pairs[k].open
                   THEN IF ch = quote_pairs[k].close
                        THEN PopMatching(Append(stack, [open |-> quote_pairs[k].open,
                                                        close |-> quote_pairs[k].close,
                                                        pos |-> pos]),
                                         quote_pairs[k].close)
                        ELSE Append(stack, [open |-> quote_pairs[k].open,
                                            close |-> quote_pairs[k].close,
                                            pos |-> pos])
                   ELSE IF ch = quote_pairs[k].close
                        THEN PopMatching(stack, quote_pairs[k].close)
                        ELSE stack,
                   k + 1)

\* The quotes left open in text[start:end].
RECURSIVE quote_stack(_, _, _, _)
quote_stack(text, pos, end, stack) ==
    IF pos >= end THEN stack
    ELSE quote_stack(text, pos + 1, end, ScanPairs(text[pos + 1], pos, stack, 1))

\* One round over the open quotes: end moves past the next closing mark of
\* each, found in the text that followed end when the round began.
RECURSIVE ForClose(_, _, _, _)
ForClose(remaining_text, end, stack, i) ==
    IF i > Len(stack) THEN [end |-> end, all_found |-> TRUE]
    ELSE LET close_pos == Find(remaining_text, stack[i].close)
         IN  IF close_pos # -1
             THEN ForClose(remaining_text, end + close_pos + 1, stack, i + 1)
             ELSE [end |-> end, all_found |-> FALSE]

\* while quote_stack and end < len(text)
RECURSIVE ExtendQuotes(_, _, _)
ExtendQuotes(text, end, stack) ==
    IF stack = <<>> \/ end >= Len(text) THEN end
    ELSE LET r == ForClose(Slice(text, end, Len(text)), end, stack, 1)
         IN  IF r.all_found THEN ExtendQuotes(text, r.end, stack) ELSE r.end

\* One iteration of the main loop with the cursor at start: the offset the
\* segment ends at, which is the next value of start.
MainStep(text, max_length, start) ==
         LET window == Window(start, max_length, Len(text))
             end == ExtendQuotes(text, window,
                                 quote_stack(text, start, window, <<>>))
             sentence == BestSplit(text, sentence_end_punctuations, start, end)
             other == IF sentence = -1
                      THEN BestSplit(text, other_punctuations, start, end)
                      ELSE sentence
             extend == other = -1 /\ 10 * (end - start) >= 9 * max_length
             extended_end == Min(start + (12 * max_length) \div 10, Len(text))
             best_split_pos == IF extend
                               THEN BestSplit(text, all_punctuations, start,
                                              extended_end)
                               ELSE other
         IN  IF best_split_pos > start THEN best_split_pos + 1
             ELSE IF extend THEN extended_end ELSE end

\* The main loop from offset start on; a segment is kept with the offset it
\* starts at in the trimmed text.
RECURSIVE MainLoop(_, _, _, _)
MainLoop(text, max_length, start, res) ==
    IF start >= Len(text) THEN res
    ELSE LET cut == MainStep(text, max_length, start)
         IN  MainLoop(text, max_length, cut,
                      Append(res, [start |-> start,
                                   text |-> Slice(text, start, cut)]))

\* Mutant of Clean: a segment that trimming would change is dropped.
RECURSIVE CleanDropsUntrimmed(_)
CleanDropsUntrimmed(res) ==
    IF res = <<>> THEN <<>>
    ELSE LET segment == Head(res)
         IN  IF Strip(segment.text) # segment.text
             THEN CleanDropsUntrimmed(Tail(res))
             ELSE <<segment>> \o CleanDropsUntrimmed(Tail(res))

\* Mutant of Clean: the segments are kept as the main loop cut them.
CleanKeepsAll(res) == res

\* result = [segment.strip() for segment in result if segment.strip()]
RECURSIVE Clean(_)
Clean(res) ==
    IF res = <<>> THEN <<>>
    ELSE LET segment == Head(res)
             lead == Len(segment.text) - Len(LStrip(segment.text))
         IN  IF Strip(segment.text) = <<>> THEN Clean(Tail(res))
             ELSE <<[start |-> segment.start + lead,
                     text |-> Strip(segment.text)]>> \o Clean(Tail(res))

\* The post-pass moves sub_end past the next closing mark for every pair
\* with more opening than closing marks in the sub-window.
RECURSIVE SubQuotes(_, _, _, _)
SubQuotes(segment, sub_start, sub_end, k) ==
    IF k > Len(quote_pairs) THEN sub_end
    ELSE LET sub == Slice(segment, sub_start, sub_end)
             close_pos == Find(Slice(segment, sub_end, Len(segment)),
                               quote_pairs[k].close)
         IN  IF /\ Count(sub, quote_pairs[k].open) > Count(sub, quote_pairs[k].close)
                /\ close_pos # -1
             THEN SubQuotes(segment, sub_start, sub_end + close_pos + 1, k + 1)
             ELSE SubQuotes(segment, sub_start, sub_end, k + 1)

\* One iteration of the post-pass loop over a segment with the cursor at
\* sub_start: the offset the sub-segment ends at, the next value of sub_start.
SubStep(segment, max_length, sub_start) ==
    LET sub_end == SubQuotes(segment, sub_start,
                             Window(sub_start, max_length, Len(segment)), 1)
        sub_best_split == BestSplit(segment, all_punctuations, sub_start, sub_end)
    IN  IF sub_best_split > sub_start THEN sub_best_split + 1 ELSE sub_end

\* The post-pass loop over one segment that is too long.
RECURSIVE SubLoop(_, _, _, _)
SubLoop(segment, max_length, sub_start, final_result) ==
    IF sub_start >= Len(segment.text) THEN final_result
    ELSE LET cut == SubStep(segment.text, max_length, sub_start)
         IN  SubLoop(segment, max_length, cut,
                     Append(final_result,
                            [start |-> segment.start + sub_start,
                             text |-> Slice(segment.text, sub_start, cut)]))

\* A segment of at most max_length * 1.5 characters is kept, a longer one is
\* split again.
RECURSIVE PostPass(_, _)
PostPass(res, max_length) ==
    IF res = <<>> THEN <<>>
    ELSE LET segment == Head(res)
         IN  (IF 2 * Len(segment.text) <= 3 * max_length THEN <<segment>>
              ELSE SubLoop(segment, max_length, 0, <<>>))
             \o PostPass(Tail(res), max_length)

split_by_paragraph_or_length(text, max_length) ==
    IF Strip(text) = <<>> THEN <<>>
    ELSE PostPass(Clean(MainLoop(Strip(text), max_length, 0, <<>>)), max_length)

SegmentInit ==
    /\ g_text \in Texts(ContentTokens, MaxContentLen)
    /\ g_max_length \in 1..MaxLength
    /\ g_pc = "called"
    /\ g_segments = <<>>
    /\ JobIdle /\ ClientIdle /\ ParseIdle /\ ChapterIdle /\ DocumentIdle /\ LoopIdle

SplitByParagraphOrLength ==
    /\ g_pc = "called"
    /\ g_pc' = "returned"
    /\ g_segments' = split_by_paragraph_or_length(g_text, g_max_length)
    /\ UNCHANGED <<g_text, g_max_length, jobvars, clientvars, parsevars,
                   chaptervars, documentvars, loopvars>>

SegmentNext == SplitByParagraphOrLength

SpecSegments == SegmentInit /\ [][SegmentNext]_vars

\* ------------------------------------ one input text, chapters then segments
\* process_text splits the text into chapters and then every chapter content
\* into segments. The input texts are two sections, each under a marker line.
SectionTokens == {"a", "s", "ws"}
MarkerLines == { <<"#">>, <<"#", "ws", "a">> }

Document(marker, first, second) ==
    marker \o <<"nl">> \o first \o <<"nl">> \o marker \o <<"nl">> \o second

DocumentInit ==
    /\ \E marker \in MarkerLines :
         \E first \in Texts(SectionTokens, MaxSectionLen) :
           \E second \in Texts(SectionTokens, MaxSectionLen) :
              s_text = Document(marker, first, second)
    /\ s_pc = "called"
    /\ s_mode = "-"
    /\ s_chapters = <<>>
    /\ d_max_length \in 1..MaxSegmentLength
    /\ d_segments = <<>>
    /\ JobIdle /\ ClientIdle /\ ParseIdle /\ SegmentIdle /\ LoopIdle

\* One iteration of the loop over the chapters: the next chapter content is
\* split into segments.
SplitChapterContent ==
    /\ s_pc = "returned"
    /\ Len(d_segments) < Len(s_chapters)
    /\ d_segments' =
          Append(d_segments,
                 split_by_paragraph_or_length(
                     s_chapters[Len(d_segments) + 1].content, d_max_length))
    /\ UNCHANGED <<d_max_length, jobvars, clientvars, parsevars, chaptervars,
                   segmentvars, loopvars>>

DocumentNext == SplitByChapter \/ SplitChapterContent

SpecDocument == DocumentInit /\ [][DocumentNext]_vars

\* ----------------------- split_by_paragraph_or_length, iteration by iteration
\* The same function with one step per iteration of its loops.
LoopInit == JobIdle /\ ClientIdle /\ PureIdle

\* The call with its arguments: text = text.strip(); if not text: return
LoopCall ==
    /\ g_pc = "idle"
    /\ \E text \in Texts(ContentTokens, MaxLoopContentLen) :
          /\ g_text' = Strip(text)
          /\ g_pc' = IF Strip(text) = <<>> THEN "returned" ELSE "main"
    /\ g_max_length' \in 1..MaxLoopLength
    /\ UNCHANGED <<g_segments, loopvars, jobvars, clientvars, parsevars,
                   chaptervars, documentvars>>

\* One iteration of `while start < len(text)`.
MainIteration ==
    /\ g_pc = "main"
    /\ w_start < Len(g_text)
    /\ \E cut \in {MainStep(g_text, g_max_length, w_start)} :
          /\ w_start' = cut
          /\ g_segments' = Append(g_segments,
                                  [start |-> w_start,
                                   text |-> Slice(g_text, w_start, cut)])
    /\ UNCHANGED <<g_text, g_max_length, g_pc, w_index, w_final, jobvars,
                   clientvars, parsevars, chaptervars, documentvars>>

\* The main loop is left, and the segments are trimmed.
MainExit ==
    /\ g_pc = "main"
    /\ w_start >= Len(g_text)
    /\ g_segments' = Clean(g_segments)
    /\ g_pc' = "post"
    /\ UNCHANGED <<g_text, g_max_length, loopvars, jobvars, clientvars,
                   parsevars, chaptervars, documentvars>>

\* One iteration of `for segment in result`.
PostIteration ==
    /\ g_pc = "post"
    /\ w_index < Len(g_segments)
    /\ w_index' = w_index + 1
    /\ w_final' = w_final \o PostPass(<<g_segments[w_index + 1]>>, g_max_length)
    /\ UNCHANGED <<segmentvars, w_start, jobvars, clientvars, parsevars,
                   chaptervars, documentvars>>

\* return final_result
LoopReturn ==
    /\ g_pc = "post"
    /\ w_index >= Len(g_segments)
    /\ g_pc' = "returned"
    /\ UNCHANGED <<g_text, g_max_length, g_segments, loopvars, jobvars,
                   clientvars, parsevars, chaptervars, documentvars>>

\* A step of the function once it is called.
LoopStep ==
    \/ MainIteration
    \/ MainExit
    \/ PostIteration
    \/ LoopReturn

LoopNext == LoopCall \/ LoopStep

SpecLoops == LoopInit /\ [][LoopNext]_vars

\* The interpreter runs a called function on: no step of it that can be
\* taken is put off for ever. Nothing makes the call itself happen.
SpecLoopsFair == SpecLoops /\ WF_vars(LoopStep)

\* ------------------------------------------------------------------ claims
\* The positions of the driving thread inside the iteration of a chapter.
InChapter == pc \in {"submit", "collect", "segments", "merge", "persist"}

\* The collector waits on an empty queue that no task will ever fill.
Blocked ==
    /\ pipeline = "webui"
    /\ pc = "collect"
    /\ result_queue = <<>>
    /\ \A i \in Segs : task[i] \in {"done", "crashed"}

\* The items of a sequence of provenance-tagged records that stem from
\* segment i.
OfSegment(items, i) == SelectSeq(items, LAMBDA it : it[2] = i)

\* Records in nondecreasing (chapter, segment) order, the records of one
\* segment in the order of its list.
ProvenanceOrdered(items) ==
    \A p, q \in DOMAIN items :
        p < q => \/ items[p][1] < items[q][1]
                 \/ items[p][1] = items[q][1] /\ items[p][2] < items[q][2]
                 \/ /\ items[p][1] = items[q][1]
                    /\ items[p][2] = items[q][2]
                    /\ items[p][3] < items[q][3]

\* C1: in the thread-pool pipeline the merged record list of a chapter is the
\* concatenation, in increasing segment index, of what each segment's
\* extraction yielded, whatever the order in which the tasks completed.
C1_MergedInSegmentIndexOrder ==
    (pipeline = "webui" /\ pc = "persist") =>
        /\ chapter_json = Concat([p \in 1..NSeg |-> Items(Title, p - 1, segment_json[p - 1])])
        /\ ProvenanceOrdered(chapter_json)

\* C1 witness: two segments completed in the order 1, 0 and both contributed
\* records to the merged list.
C1_Witness ==
    /\ pipeline = "webui"
    /\ pc = "persist"
    /\ collected = <<1, 0>>
    /\ OfSegment(chapter_json, 0) # <<>>
    /\ OfSegment(chapter_json, 1) # <<>>

\* The number of outcomes put so far that carry index i: those still queued
\* and those the collector has taken.
PutCount(i) ==
    Cardinality({p \in DOMAIN result_queue : result_queue[p].id = i})
    + Cardinality({p \in DOMAIN collected : collected[p] = i})

\* A task whose extraction has returned (at the first attempt, at the retry,
\* or empty) has put exactly one outcome and no other task has put any; when
\* the collection of a chapter has ended the collector has taken exactly one
\* outcome for each index 0..N-1; the queue is empty whenever no chapter is
\* being dispatched or collected.
OutcomePerReturnedExtraction ==
    /\ (pipeline = "webui" /\ pc \in {"submit", "collect", "merge", "persist"}) =>
          /\ \A i \in Segs : PutCount(i) = IF task[i] = "done" THEN 1 ELSE 0
          /\ pc \in {"merge", "persist"} =>
                /\ Len(collected) = NSeg
                /\ {collected[p] : p \in DOMAIN collected} = Segs
    /\ pc \notin {"submit", "collect"} => result_queue = <<>>

\* C2 (as stated): every submitted segment yields exactly one outcome: a
\* task that has ended has put one outcome, the collector is never left
\* waiting for an outcome that no task will put, and when the collection has
\* ended it has taken one outcome for each index and the queue is empty.
C2_OneOutcomePerSegment ==
    /\ OutcomePerReturnedExtraction
    /\ (pipeline = "webui" /\ pc \in {"submit", "collect"}) =>
          \A i \in Segs : task[i] \in {"done", "crashed"} => PutCount(i) = 1
    /\ ~Blocked

\* C3: with its prompt loaded a request never raises and POSTs at most
\* twice; when both POSTs fail, and when the only POST fails, the result is
\* the empty one.
C3_AtMostTwoCallsEmptyOnFailure ==
    /\ c_calls <= 2
    /\ c_loaded => c_pc # "raised"
    /\ c_pc = "returned" =>
          /\ c_calls \in 1..2
          /\ (c_calls = 2) = (c_second # "-")
          /\ (c_first \in FailureKinds /\ c_second \in FailureKinds \cup {"-"})
                => IsEmpty(c_result)

\* C3 witness: a request whose two POSTs failed in different ways has returned
\* the empty result.
C3_Witness ==
    /\ c_pc = "returned"
    /\ c_first = "transport"
    /\ c_second = "http"
    /\ c_calls = 2
    /\ IsEmpty(c_result)

\* C4 (as stated): with both prompts loaded, no mix of role and segment
\* responses makes the job abort or leaves its collector blocked for ever.
C4_JobNeverAbortsNorBlocks ==
    (prompt_template /\ chapter_prompt_template) => (pc # "aborted" /\ ~Blocked)

\* C5 (as stated): in a job started with a prompt missing no request is ever
\* sent, the only exception is the ValueError of the missing prompt, and the
\* job does not hang.
C5_TemplateNotLoadedFailsFast ==
    (pc # "idle" /\ (~prompt_template \/ ~chapter_prompt_template)) =>
        /\ ~request_sent
        /\ ~Blocked
        /\ pc = "aborted" => error = "ValueError"

\* Segment i of the chapter at hand has had its extraction, which failed or
\* gave a response that could not be parsed.
Failed(i) ==
    /\ segment_json[i] = None
    /\ IF pipeline = "webui" THEN task[i] = "done" ELSE i < submitted

\* A segment whose extraction failed or whose response could not be parsed
\* contributes no record; the merged list of its chapter holds the records of
\* every other segment, in index order, and is what the title-keyed mapping
\* records for the chapter; every earlier chapter has been persisted; and the
\* merge raises only on a value that is truthy and not iterable.
FailedSegmentAddsNothing ==
    /\ pc = "persist" =>
          /\ \A i \in Segs :
                IF segment_json[i] = None
                THEN OfSegment(chapter_json, i) = <<>>
                ELSE OfSegment(chapter_json, i) = Items(Title, i, segment_json[i])
          /\ ProvenanceOrdered(chapter_json)
          /\ \E p \in DOMAIN result :
                result[p].title = Title /\ result[p].json = chapter_json
    /\ (pc = "aborted" /\ abort_at = "merge") =>
          \E i \in Segs : Truthy(segment_json[i]) /\ ~Iterable(segment_json[i])
    /\ pc \in {"roles", "submit", "collect", "segments", "merge", "persist"} =>
          Len(scripts) = cur - 1

\* C6 (as stated): a failed segment contributes no record, the records of
\* the other segments are merged in index order, and a chapter that holds a
\* failed segment is persisted: its merge never raises.
C6_FailedSegmentContributesNothing ==
    /\ FailedSegmentAddsNothing
    /\ abort_at = "merge" => \A i \in Segs : ~Failed(i)

\* C7 (as stated): no segment response makes process_text raise.
C7_SegmentResponseStaysLocal == abort_at # "merge"

\* When the role request of a chapter has failed the RoleSet is empty, the
\* role step does not end the job, the thread pool is handed every segment,
\* and every segment request that is sent is the bare segment text.
RoleFailureSendsBare ==
    role_status = "failed" =>
        /\ chapter_roles = EmptyList
        /\ abort_at # "roles"
        /\ InChapter => \A i \in Segs : sent[i] # "hinted"
        /\ (pipeline = "webui" /\ pc \in {"collect", "merge", "persist"}) =>
              \A i \in Segs : task[i] # "none"
        /\ pc \in {"merge", "persist"} => \A i \in Segs : sent[i] = "bare"

\* C8 (as stated): when the role request of a chapter has failed the RoleSet
\* is empty, every segment request is the bare segment text, and every
\* segment of the chapter is dispatched: with the segment prompt loaded the
\* job never ends while a segment of the chapter has no request.
C8_RoleFailureSendsBareSegments ==
    /\ RoleFailureSendsBare
    /\ (role_status = "failed" /\ prompt_template /\ pc = "aborted") =>
          \A i \in Segs : sent[i] = "bare"

\* C9 (as stated): a role response that parses to a value that is neither a
\* list nor a mapping holding a list under "roles" leaves the RoleSet empty,
\* and neither ends the job nor blocks it.
C9_NonListRolesGiveEmptyRoleSet ==
    role_status = "nonlist" =>
        (chapter_roles = EmptyList /\ abort_at # "roles" /\ ~Blocked)

\* C10: the combined result is written at most once, only when every chapter
\* has been persisted; it is the concatenation, in chapter order, of the
\* record lists persisted for the chapters, each chapter of the splitter
\* holding exactly one entry of the title-keyed mapping.
C10_CombinedIsConcatenationInChapterOrder ==
    /\ Len(combined) <= 1
    /\ (pc = "done") = (combined # <<>>)
    /\ combined # <<>> =>
          /\ Len(result) = Len(chapters)
          /\ Len(scripts) = Len(chapters)
          /\ \A k \in DOMAIN chapters :
                /\ result[k].title = chapters[k].title
                /\ scripts[k] = result[k]
          /\ combined[1] = Concat([k \in DOMAIN chapters |-> scripts[k].json])
          /\ ProvenanceOrdered(combined[1])

\* C10 witness: the combined result of a two-chapter job holds records of
\* both chapters.
C10_Witness ==
    /\ pc = "done"
    /\ Len(chapters) = 2
    /\ \E p, q \in DOMAIN combined[1] :
          combined[1][p][1] = ChapterTitle(1) /\ combined[1][q][1] = ChapterTitle(2)

\* The record files written so far are those of the chapters before the
\* current one, one per chapter, in chapter order.
FilesOfEarlierChapters ==
    /\ Len(scripts) = cur - 1
    /\ \A k \in DOMAIN scripts : scripts[k].title = chapters[k].title

\* C11: chapters are processed one at a time.  Whenever a request of chapter
\* cur can be issued (and wherever the job is interrupted) the record files
\* of exactly the chapters before cur exist; the collection of a chapter ends
\* only when every task of the chapter has completed and every outcome has
\* been taken; no task is left over when the next chapter starts; and a
\* record file, once written, keeps its content.
C11_ChaptersOneAtATime ==
    /\ [](/\ pc \in {"roles", "submit", "collect", "segments", "merge",
                     "persist", "aborted"} => FilesOfEarlierChapters
          /\ pc \in {"return", "done"} => Len(scripts) = Len(chapters)
          /\ (pipeline = "webui" /\ pc \in {"merge", "persist"}) =>
                /\ \A i \in Segs : task[i] = "done"
                /\ Len(collected) = NSeg
                /\ result_queue = <<>>
          /\ pc = "roles" => (task = <<>> /\ result_queue = <<>>))
    /\ [][\A k \in DOMAIN scripts :
            k \in DOMAIN scripts' /\ scripts'[k] = scripts[k]]_vars

\* C11 witness: a segment request of the second chapter is in flight, the
\* first chapter's record file being written with records in it.
C11_Witness ==
    /\ pipeline = "webui"
    /\ cur = 2
    /\ pc = "collect"
    /\ \E i \in Segs : task[i] = "running"
    /\ Len(scripts) = 1
    /\ scripts[1].json # <<>>

\* C12: the number of segment requests in flight never exceeds the
\* configured number of workers, nor the number of segments of the chapter;
\* tasks are started in submission order.
C12_InFlightAtMostMaxWorkers ==
    (pipeline = "webui" /\ pc \in {"submit", "collect", "merge", "persist"}) =>
        /\ Cardinality(Running) <= max_workers
        /\ Cardinality(Running) <= NSeg
        /\ \A i, j \in Segs :
              (i < j /\ task[j] \in {"running", "done", "crashed"}) =>
                  task[i] \in {"running", "done", "crashed"}

\* C12 witness: with one worker, the first segment's request is in flight
\* and the second segment waits in the pool's queue.
C12_Witness ==
    /\ pipeline = "webui"
    /\ max_workers = 1
    /\ pc = "collect"
    /\ NSeg = 2
    /\ task[0] = "running"
    /\ task[1] = "queued"

\* The positions of the fences of a text, in order.
FenceSeq(text) ==
    SelectSeq([i \in 1..Len(text) |-> i], LAMBDA i : text[i] = "fence")

\* The inner text of the k-th fenced block of a text: its fences are the
\* (2k-1)-th and the 2k-th of the text, an opening fence may carry the tag.
BlockInner(text, k) ==
    LET f == FenceSeq(text)
        a == f[2 * k - 1]
        b == f[2 * k]
    IN Strip(SubSeq(text, IF text[a + 1] = "tag" THEN a + 2 ELSE a + 1, b - 1))

\* The fenced blocks of a text whose inner text is valid JSON.
ValidBlocks(text) ==
    {k \in 1..(Len(FenceSeq(text)) \div 2) : json_loads(BlockInner(text, k)).ok}

\* C13 (as stated): parseRecords returns the directly parsed value of a text
\* that is valid JSON; else, when the text holds a fenced block whose inner
\* text is valid JSON, the value of such a block; else the empty list.
C13_ParseRecordsDirectFencedEmpty ==
    p_fn = "records" =>
        IF json_loads(p_text).ok THEN p_out = json_loads(p_text).val
        ELSE IF ValidBlocks(p_text) # {}
             THEN \E k \in ValidBlocks(p_text) :
                     p_out = json_loads(BlockInner(p_text, k)).val
             ELSE p_out = EmptyList

\* C13 (amended): parseRecords returns the directly parsed value of a text
\* that is valid JSON; else, when the inner text of the first fenced block
\* of the text is valid JSON, that value; else the empty list.
C13_ParseRecordsFirstBlock ==
    p_fn = "records" =>
        IF json_loads(p_text).ok THEN p_out = json_loads(p_text).val
        ELSE IF 1 \in ValidBlocks(p_text)
             THEN p_out = json_loads(BlockInner(p_text, 1)).val
             ELSE p_out = EmptyList

\* C13 witness: a block tagged json, with whitespace around the record
\* list, has been parsed to the record list.
C13_Witness ==
    /\ p_fn = "records"
    /\ p_text = <<"fence", "tag", "ws", "records", "ws", "fence">>
    /\ p_out = RecordList(1)

\* C14 (as stated): the role parser of each pipeline, applied to a text that
\* parses to a mapping holding a list under "roles", returns that list.
C14_RolesMappingYieldsList ==
    (/\ p_fn \in {"webui", "cli"}
     /\ json_loads(p_text).ok
     /\ json_loads(p_text).val = RolesDict("strlist")) => p_out = StrList

\* t is made of whitespace only.
Blank(t) == \A i \in DOMAIN t : t[i] \in Whitespace

\* Text t is the parts, in order, with nothing but whitespace before, between
\* and after them.
RECURSIVE Covers(_, _)
Covers(t, parts) ==
    IF parts = <<>> THEN Blank(t)
    ELSE \E k \in 0..Len(t) :
            /\ Blank(SubSeq(t, 1, k))
            /\ k + Len(parts[1]) <= Len(t)
            /\ SubSeq(t, k + 1, k + Len(parts[1])) = parts[1]
            /\ Covers(SubSeq(t, k + Len(parts[1]) + 1, Len(t)), Tail(parts))

\* The contents of the chapters returned, in order.
Contents == [k \in DOMAIN s_chapters |-> s_chapters[k].content]

\* C15 (as stated): split_by_chapter returns at least one chapter for every
\* text that is not empty.
C15_NonEmptyTextGivesChapter ==
    (s_pc = "returned" /\ s_text # <<>>) => s_chapters # <<>>

\* C15 (amended): split_by_chapter returns at least one chapter for every
\* text that holds more than whitespace, and none for a blank text.
C15_NonBlankTextGivesChapter ==
    s_pc = "returned" => (s_chapters # <<>>) = ~Blank(s_text)

\* C15 witness: a text made of marker lines only comes back as one chapter,
\* by the fallback.
C15_Witness ==
    /\ s_pc = "returned"
    /\ s_text = <<"#", "nl", "#">>
    /\ s_mode = "fallback"
    /\ Len(s_chapters) = 1

\* C16: the chapters returned carry the indices 1, 2, ..., n in order, and
\* the content of each is trimmed and not empty; in every mode.
C16_IndicesFromOneContentNotEmpty ==
    s_pc = "returned" =>
        \A k \in DOMAIN s_chapters :
            /\ s_chapters[k].title = ChapterTitle(k)
            /\ s_chapters[k].content # <<>>
            /\ Strip(s_chapters[k].content) = s_chapters[k].content

\* C16 witness: pattern mode has returned three chapters, the text before
\* the first heading and the contents of two headings.
C16_Witness ==
    /\ s_pc = "returned"
    /\ s_mode = "pattern"
    /\ Len(s_chapters) = 3
    /\ s_text[1] = "a"

WithoutMarkerLines(text) ==
    JoinLines(SelectSeq(SplitLines(text), LAMBDA line : ~IsMarkerLine(line)))
WithoutHeadings(text) == SelectSeq(text, LAMBDA c : c # "H")

SegmentTexts == [i \in DOMAIN g_segments |-> g_segments[i].text]

\* C18: the segments split_by_paragraph_or_length returns, put end to end in
\* order, are the chapter content but for whitespace where segments meet and
\* around the content: no character is dropped, duplicated or reordered.
C18_SegmentsCoverContent ==
    g_pc = "returned" => Covers(g_text, SegmentTexts)

\* Two segments, and whitespace dropped where they meet.
C18_Witness ==
    /\ g_pc = "returned"
    /\ g_max_length = 3
    /\ g_text = <<"a", "s", "ws", "a", "a">>
    /\ SegmentTexts = << <<"a", "s">>, <<"a", "a">> >>

\* The content the offsets of the segments refer to.
Content == Strip(g_text)

\* The offsets of the quote marks of the content.
QuoteOffsets == {p \in 0..(Len(Content) - 1) : Content[p + 1] = "q"}

\* A quote mark opens a quotation when an even number of marks precede it.
Opens(p) == Cardinality({r \in QuoteOffsets : r < p}) % 2 = 0

\* C19: no segment returned by split_by_paragraph_or_length holds an opening
\* quote mark without its closing mark, when that closing mark exists later
\* in the content.
C19_NoUnmatchedOpeningQuote ==
    g_pc = "returned" =>
        \A i \in DOMAIN g_segments :
            \A p \in QuoteOffsets :
                \A r \in QuoteOffsets :
                    (/\ Opens(p)
                     /\ p >= g_segments[i].start
                     /\ p < g_segments[i].start + Len(g_segments[i].text)
                     /\ r > p) =>
                        \E c \in QuoteOffsets :
                            /\ c > p
                            /\ c < g_segments[i].start + Len(g_segments[i].text)

\* C20: a segment returned by split_by_paragraph_or_length is longer than
\* max_length * 1.5 only if the content from the start of the segment to its
\* end holds no punctuation mark of either class.
C20_LongSegmentOnlyWithoutPunctuation ==
    g_pc = "returned" =>
        \A i \in DOMAIN g_segments :
            2 * Len(g_segments[i].text) > 3 * g_max_length =>
                \A p \in g_segments[i].start..(Len(Content) - 1) :
                    Content[p + 1] \notin all_punctuations

\* A content with a punctuation mark whose segment is longer than max_length:
\* the mark was found in the window of max_length * 1.2.
C20_Witness ==
    /\ g_pc = "returned"
    /\ g_max_length = 5
    /\ g_text = <<"a", "a", "a", "a", "a", "o">>
    /\ Len(g_segments) = 1
    /\ Len(g_segments[1].text) = 6

\* C21: no string in the list split_by_paragraph_or_length returns is empty
\* or made of whitespace only.
C21_NoBlankSegment ==
    g_pc = "returned" => \A i \in DOMAIN g_segments : ~Blank(g_segments[i].text)

\* The main loop cut a piece of whitespace only, which is not returned.
C21_Witness ==
    /\ g_pc = "returned"
    /\ g_max_length = 2
    /\ g_text = <<"a", "s", "ws", "ws", "a">>
    /\ SegmentTexts = << <<"a", "s">>, <<"a">> >>

\* The k-th section of the input text: the line under the k-th marker line,
\* without the whitespace around it.
Section(k) == Strip(SplitLines(s_text)[2 * k])

\* The text is two sections whose contents are not blank.
TwoSections == Section(1) # <<>> /\ Section(2) # <<>>

\* C22: for a text of two marker-delimited sections that are not blank,
\* split_by_chapter returns exactly 2 chapters, a section longer than
\* max_length * 1.2 is split into at least 2 segments and a section no longer
\* than max_length into exactly 1 segment.
C22_TwoSectionsEndToEnd ==
    TwoSections =>
        /\ s_pc = "returned" => Len(s_chapters) = 2
        /\ \A k \in DOMAIN d_segments :
              /\ 10 * Len(Section(k)) > 12 * d_max_length =>
                    Len(d_segments[k]) >= 2
              /\ Len(Section(k)) <= d_max_length => Len(d_segments[k]) = 1

\* What holds of the two sections: 2 chapters whose contents are the
\* sections; a section longer than max_length * 1.2 gives at least 2
\* segments; a section no longer than max_length gives exactly 1 segment when
\* no punctuation mark stands inside it with text after it.
TwoSectionsSplit ==
    TwoSections =>
        /\ s_pc = "returned" =>
              /\ Len(s_chapters) = 2
              /\ \A k \in 1..2 : s_chapters[k].content = Section(k)
        /\ \A k \in DOMAIN d_segments :
              /\ 10 * Len(Section(k)) > 12 * d_max_length =>
                    Len(d_segments[k]) >= 2
              /\ (/\ Len(Section(k)) <= d_max_length
                  /\ \A p \in 2..(Len(Section(k)) - 1) :
                        Section(k)[p] \notin all_punctuations) =>
                    Len(d_segments[k]) = 1

\* The failures of a first attempt the retry policy names.
FirstFailures == {"transport", "http", "nochoices"}

\* C23: whenever the first attempt of a request fails, by transport error,
\* by non-success status or by an envelope without choices, the client waits
\* and issues exactly one further call, and a success of that call is the
\* result of the request; for either client.
C23_FirstFailureIsRetriedOnce ==
    c_first \in FirstFailures =>
        /\ c_pc \in {"sleep", "retry", "returned"}
        /\ c_pc \in {"sleep", "retry"} => c_calls = 1 /\ c_second = "-"
        /\ c_pc = "returned" =>
              /\ c_calls = 2
              /\ c_second # "-"
              /\ c_second = "ok" => c_result \in Responses(c_kind)

\* What holds: the same of every first failure but the envelope without
\* choices in EnhancedLLMClient._call_api, after which the request returns
\* the empty result with no further call.
FirstFailureIsRetriedButNoChoices ==
    /\ (c_first \in FirstFailures /\ ~(c_pl = "webui" /\ c_first = "nochoices")) =>
          /\ c_pc \in {"sleep", "retry", "returned"}
          /\ c_pc \in {"sleep", "retry"} => c_calls = 1 /\ c_second = "-"
          /\ c_pc = "returned" =>
                /\ c_calls = 2
                /\ c_second # "-"
                /\ c_second = "ok" => c_result \in Responses(c_kind)
    /\ (c_pl = "webui" /\ c_first = "nochoices") =>
          c_pc = "returned" /\ c_calls = 1 /\ IsEmpty(c_result)

\* The text is not JSON as it is, and the inner text of its first fenced
\* block is a JSON list of role names.
RolesInFencedBlock ==
    /\ ~json_loads(p_text).ok
    /\ 1 \in ValidBlocks(p_text)
    /\ json_loads(BlockInner(p_text, 1)).val = StrList

\* C24: the role parser of each pipeline, applied to a text that is not
\* directly parsable and holds a fenced block whose inner text is a JSON list
\* of role names, returns that list.
C24_RolesFencedBlockYieldsList ==
    (p_fn \in {"webui", "cli"} /\ RolesInFencedBlock) => p_out = StrList

\* What holds: LLMClient's role parser returns the list of the fenced block,
\* EnhancedLLMClient's returns the empty list.
RolesFencedBlockPerPipeline ==
    /\ (p_fn = "cli" /\ RolesInFencedBlock) => p_out = StrList
    /\ (p_fn = "webui" /\ RolesInFencedBlock) => p_out = EmptyList

\* Some segment request of the current chapter has been built.
Dispatched == \E i \in DOMAIN sent : sent[i] # "none"

\* C25: within a chapter the role request (with its retry) has returned and
\* chapter_roles is set before any segment is dispatched; chapter_roles does
\* not change while the segments of the chapter are dispatched, and every
\* segment request is built from it.
C25_RolesBeforeSegments ==
    /\ [](/\ pc = "roles" =>
               /\ ~Dispatched
               /\ \A i \in DOMAIN task : task[i] = "none"
          /\ Dispatched => role_status # "-"
          /\ \A i \in DOMAIN sent :
                sent[i] # "none" =>
                    sent[i] = IF Truthy(chapter_roles) THEN "hinted" ELSE "bare")
    /\ [][(Dispatched /\ cur' = cur) => chapter_roles' = chapter_roles]_vars

\* Two segments of a chapter are in flight, both built from the roles the
\* role step of the chapter returned.
C25_Witness ==
    /\ pipeline = "webui"
    /\ pc = "collect"
    /\ NSeg = 2
    /\ role_status = "list"
    /\ chapter_roles = StrList
    /\ task[0] = "running" /\ task[1] = "running"
    /\ sent[0] = "hinted" /\ sent[1] = "hinted"

\* The iteration-by-iteration run returns what split_by_paragraph_or_length
\* computes.
LoopsComputeTheSplit ==
    g_pc = "returned" =>
        w_final = split_by_paragraph_or_length(g_text, g_max_length)

\* C26: split_by_paragraph_or_length terminates: every iteration of the main
\* loop moves start forward, the loop is left when start has reached the end
\* of the content, every iteration of the post-pass loop moves sub_start
\* forward (whatever the segment and the cursor it is run on), and the
\* function returns.
C26_LoopsTerminate ==
    /\ [][(g_pc = "main" /\ g_pc' = "main") => w_start' > w_start]_vars
    /\ [](g_pc \in {"post", "returned"} => w_start = Len(g_text))
    /\ [](\A sub_start \in 0..(Len(g_text) - 1) :
             /\ SubStep(g_text, g_max_length, sub_start) > sub_start
             /\ SubStep(g_text, g_max_length, sub_start) <= Len(g_text))
    /\ (g_pc = "main") ~> (g_pc = "returned")

\* The function has returned after two iterations of its main loop, one that
\* split at a punctuation mark and one that cut.
C26_Witness ==
    /\ g_pc = "returned"
    /\ g_max_length = 2
    /\ g_text = <<"a", "s", "a">>
    /\ w_start = 3
    /\ w_index = 2
    /\ Len(w_final) = 2

==========================================================================
